---- MODULE Spec2Model ----
(***************************************************************************)
(* Model of the Telegram <-> Intercom bridge: BridgeService (the Router    *)
(* and the Provisioner handleNewGroup / processQueuedMessages) running     *)
(* over RedisService (bindings, lock, pending queue) and the remote        *)
(* IntercomService calls.  Every `await` of the source is one atomic step  *)
(* of one handler; handlers interleave between steps.                      *)
(***************************************************************************)
EXTENDS Integers, Sequences, FiniteSets, TLC

\* ---------------------------------------------------------------- bounds
NumHandlers == 3        \* source messages handled (one handler invocation each)
MaxFaults   == 3        \* failing store / remote calls in one behaviour
MaxExpiries == 1        \* lock keys that reach their TTL while still set
NumConvIds  == 2        \* conversation ids a caller of the store may save
MaxAttachments == 3     \* attachments of a conversation-platform message
MaxSaves    == 2        \* saveGroupMapping calls per group on the store alone
NumUsers    == 2        \* source-platform users whose contact is resolved
MaxParts    == 2        \* conversation parts carried by one webhook payload

\* ------------------------------------------------------------- constants
Handlers == 1..NumHandlers
Groups   == {"g1", "g2"}
NoGroup  == ""                      \* a Message whose groupId is missing
Keys     == Groups \cup {NoGroup}
Nil      == 0                       \* null / undefined
Absent   == "absent"                \* hash field (a group id) that is not set
NoId     == -1                      \* hash field (an id) that is not set

VARIABLES
    pc,         \* pc[h]     : position of handler h (the await it is suspended at)
    grp,        \* grp[h]    : message.groupId of the message handler h handles
    conv,       \* conv[h]   : intercomConversationId / conversationId local of h
    exc,        \* exc[h]    : an exception is propagating out of the inner try
    snap,       \* snap[h]   : `messages` read by processQueuedMessages
    idx,        \* idx[h]    : position of the for-of loop in snap[h]
    mapping,    \* mapping[g]: redis hash group_mappings:g
    lock,       \* lock[g]   : redis key conversation_locks:g (0 = not set,
                \*             otherwise the handler whose SET NX created it)
    queue,      \* queue[g]  : redis list message_queues:g, head first
    convs,      \* remote conversations, index = conversation id
    faults,     \* failed calls so far
    expiries,   \* lock expiries so far
    acq,        \* acq[h]    : outcome of h's acquireLock call
    rel,        \* rel[h]    : outcome of h's releaseLock call
    created,    \* created[h]: h called createConversation
    qcalls,     \* qcalls[h] : queueMessage calls h made for its own message
    enqOk,      \* enqOk[h]  : one of those calls succeeded
    dfail,      \* dfail[h]  : messages whose forward failed in h's drain pass
    rpc,        \* position of the conversation-message handler
    rmsg,       \* the Message the conversation-platform adapter emitted
    rgroup,     \* telegramGroupId local of the conversation-message handler
    ridx,       \* position of its for-of loop over message.attachments
    tgsent,     \* sends the Telegram API accepted, in order
    saved,      \* saved[g]  : bindings passed to saveGroupMapping for g, in order
    call,       \* call[g]   : the last call made on the store directly for g
    goc,        \* the getOrCreateContact invocation: position, locals, ghosts
    contactMapping, \* contactMapping[u]: the contact_mappings key of user u
    remoteContacts, \* external_id of the contacts of the remote workspace
    ipc,        \* position of the inbound adapter's handler
    req,        \* req.body of the webhook request being handled
    res,        \* status the webhook handler responded with, 0: none yet
    ctx,        \* the update the source-platform handler was called with
    emitted     \* the Message the handler emitted, NoEmit: none

vars == <<pc, grp, conv, exc, snap, idx, mapping, lock, queue, convs,
          faults, expiries, acq, rel, created, qcalls, enqOk, dfail,
          rpc, rmsg, rgroup, ridx, tgsent, saved, call,
          goc, contactMapping, remoteContacts, ipc, req, res, ctx, emitted>>

locals == <<conv, exc, snap, idx>>
ghosts == <<acq, rel, created, qcalls, enqOk, dfail>>
contactVars == <<goc, contactMapping, remoteContacts>>
inboundVars == <<ipc, req, res, ctx, emitted>>
aux    == <<rpc, rmsg, rgroup, ridx, tgsent, saved, call, contactVars,
           inboundVars>>

\* ------------------------------------------------------------ RedisService
EmptyHash == [telegramGroupId |-> Absent, intercomConversationId |-> NoId,
              lastMessageId |-> NoId]

\* mutant of saveGroupMapping: writes the hash only when the key has none
saveGroupMapping_IfAbsent(m, g, c, last) ==
    IF m[g] # EmptyHash THEN m
    ELSE [m EXCEPT ![g] = [telegramGroupId |-> g, intercomConversationId |-> c,
                           lastMessageId |-> last]]

\* hSet(key, {telegramGroupId, intercomConversationId, lastMessageId})
saveGroupMapping(m, g, c, last) ==
    [m EXCEPT ![g] = [telegramGroupId |-> g, intercomConversationId |-> c,
                      lastMessageId |-> last]]

\* Object.keys(hGetAll(key)).length: the hash has a field
hasGroupMapping(m, g) == m[g] # EmptyHash

\* hGetAll(key) copied field by field; null is the hash without a field
getGroupMapping(m, g) ==
    IF hasGroupMapping(m, g)
    THEN [telegramGroupId |-> m[g].telegramGroupId,
          intercomConversationId |-> m[g].intercomConversationId,
          lastMessageId |-> m[g].lastMessageId]
    ELSE EmptyHash

\* mutant of updateLastMessageId: writes a fresh hash holding the one field
updateLastMessageId_Rewrites(m, g, id) ==
    [m EXCEPT ![g] = [EmptyHash EXCEPT !.lastMessageId = id]]

\* hSet(key, 'lastMessageId', messageId): sets the one field, and creates
\* the hash when the key has none
updateLastMessageId(m, g, id) == [m EXCEPT ![g].lastMessageId = id]

\* getGroupMapping(g)?.intercomConversationId || null
getIntercomConversation(m, g) ==
    IF ~hasGroupMapping(m, g) THEN Nil
    ELSE IF m[g].intercomConversationId = NoId THEN Nil
    ELSE m[g].intercomConversationId

\* mutant of getTelegramGroup: returns the group of the first key listed
getTelegramGroup_FirstKey(m, c) ==
    LET keys == {k \in Keys : hasGroupMapping(m, k)}
    IN  IF keys = {} THEN {Absent}
        ELSE {m[k].telegramGroupId : k \in keys}

\* keys('group_mappings:*') lists the keys in an order the store chooses and
\* the loop returns the telegramGroupId of the first hash whose
\* intercomConversationId is c, null when none is: the set of the results
\* over the orders
getTelegramGroup(m, c) ==
    LET keys == {k \in Keys : hasGroupMapping(m, k)}
        hits == {k \in keys : m[k].intercomConversationId = c}
    IN  IF hits = {} THEN {Absent}
        ELSE {m[k].telegramGroupId : k \in hits}

\* mutant of acquireLock: one lock key for all groups
acquireLock_Global(l, g) == \A k \in DOMAIN l : l[k] = 0

\* mutant of acquireLock: SET without NX, 'OK' whether or not the key is set
acquireLock_Overwrites(l, g) == l[g] \in Int

\* SET key '1' NX EX 30: true iff the key was not set
acquireLock(l, g) == l[g] = 0

\* DEL key, whoever set it
releaseLock(l, g) == [l EXCEPT ![g] = 0]

\* ghost enqueue stamp: larger than the stamp of every entry now in the list
NextStamp(q) ==
    IF q = <<>> THEN 1
    ELSE 1 + (CHOOSE n \in {q[i].t : i \in 1..Len(q)} :
                 \A i \in 1..Len(q) : q[i].t <= n)

\* lPush(key, JSON.stringify(message)): pushes at the head of the list
queueMessage(qs, g, m) ==
    [qs EXCEPT ![g] = <<[m |-> m, t |-> NextStamp(qs[g])]>> \o qs[g]]

\* lRange(key, 0, -1): the list from head to tail
getQueuedMessages(qs, g) == qs[g]

\* DEL key
clearMessageQueue(qs, g) == [qs EXCEPT ![g] = <<>>]

\* ------------------------------------------------------------------- Init
\* handlers and groups are interchangeable: the messages are listed group by
\* group and the first one is for g1
KeyRank(k) == IF k = "g1" THEN 1 ELSE IF k = "g2" THEN 2 ELSE 3

\* no conversation-message event is being handled
NoMessage == [via |-> "none", conversationId |-> NoId, senderId |-> NoId,
              attachments |-> 0]

\* the users of the source platform (message.sender.id)
Users == 1..NumUsers

\* a contact_mappings key that holds no value; why (ghost): it was never
\* set, it reached CONTACT_TTL, or invalidateContactMapping deleted it
NoContactKey == [id |-> Nil, why |-> "never"]

\* SET contact_mappings:<u> <contactId> EX 86400
saveContactMapping(c, u, id) == [c EXCEPT ![u] = [id |-> id, why |-> "set"]]

\* GET contact_mappings:<u>: the cached contact id, null when the key is unset
getContactMapping(c, u) == c[u].id

\* DEL contact_mappings:<u>
invalidateContactMapping(c, u) ==
    [c EXCEPT ![u] = [id |-> Nil, why |-> "invalidated"]]

\* the id of the remote contact whose external_id is u (ids are handed out
\* in creation order), Nil when the workspace has none
ContactOf(r, u) ==
    IF \E i \in 1..Len(r) : r[i] = u
    THEN CHOOSE i \in 1..Len(r) : r[i] = u
    ELSE Nil

\* getOrCreateContact is not running; did (ghost): the remote calls made and
\* the cache writes done by the invocation; miss (ghost): why the key was
\* unset when the invocation read it; err: what it threw
NoInvocation == [pc |-> "idle", user |-> Nil, cached |-> Nil, contact |-> Nil,
                 ret |-> Nil, did |-> {}, miss |-> "no", err |-> "none"]

\* no webhook request, no update, no emitted Message
NoBody == [type |-> Absent, itemType |-> Absent, parts |-> <<>>,
           source |-> Absent, tgid |-> Absent, tgname |-> Absent]
NoUpdate == [chatType |-> Absent, chatId |-> 0, title |-> Absent,
             hasMessage |-> FALSE, hasFrom |-> FALSE]
NoEmit == [groupId |-> Absent, groupName |-> Absent]

\* no call made on the store directly yet
NoCall == [op |-> "none", arg |-> NoId, ok |-> FALSE]

Init ==
    /\ pc = [h \in Handlers |-> "start"]
    /\ grp \in {f \in [Handlers -> Keys] :
                  /\ f[1] = "g1"
                  /\ \A h \in Handlers : h > 1 => KeyRank(f[h - 1]) <= KeyRank(f[h])}
    /\ conv = [h \in Handlers |-> Nil]
    /\ exc = [h \in Handlers |-> FALSE]
    /\ snap = [h \in Handlers |-> <<>>]
    /\ idx = [h \in Handlers |-> 0]
    /\ mapping = [g \in Keys |-> EmptyHash]
    /\ lock = [g \in Keys |-> 0]
    /\ queue = [g \in Keys |-> <<>>]
    /\ convs = <<>>
    /\ faults = 0
    /\ expiries = 0
    /\ acq = [h \in Handlers |-> "none"]
    /\ rel = [h \in Handlers |-> "none"]
    /\ created = [h \in Handlers |-> FALSE]
    /\ qcalls = [h \in Handlers |-> 0]
    /\ enqOk = [h \in Handlers |-> FALSE]
    /\ dfail = [h \in Handlers |-> {}]
    /\ rpc = "idle"
    /\ rmsg = NoMessage
    /\ rgroup = Absent
    /\ ridx = 0
    /\ tgsent = <<>>
    /\ saved = [g \in Keys |-> <<>>]
    /\ call = [g \in Groups |-> NoCall]
    /\ goc = NoInvocation
    /\ contactMapping = [u \in Users |-> NoContactKey]
    /\ remoteContacts = <<>>
    /\ ipc = "idle"
    /\ req = NoBody
    /\ res = 0
    /\ ctx = NoUpdate
    /\ emitted = NoEmit

\* a call may fail while the budget of failing calls is not used up
CanFail == faults < MaxFaults
Fail    == CanFail /\ faults' = faults + 1
NoFail  == faults' = faults

Goto(h, p) == pc' = [pc EXCEPT ![h] = p]

\* h's own queueMessage(message.groupId, message) succeeded
Enqueue(h) ==
    /\ queue' = queueMessage(queue, grp[h], h)
    /\ qcalls' = [qcalls EXCEPT ![h] = @ + 1]
    /\ enqOk' = [enqOk EXCEPT ![h] = TRUE]

\* h's own queueMessage call threw
EnqueueFails(h) ==
    /\ qcalls' = [qcalls EXCEPT ![h] = @ + 1]
    /\ UNCHANGED <<queue, enqOk>>

\* intercomService.sendMessage(c, ...) succeeded for message m
Reply(cs, c, m) == [cs EXCEPT ![c].msgs = Append(@, m)]

\* ----------------------------------------------- Router: source 'message'
\* line 125: await getIntercomConversation(message.groupId); then the bound
\* branch, or handleNewGroup up to its first await (validation, lines 45-48)
RouterLookup(h) ==
    /\ pc[h] = "start"
    /\ \/ /\ NoFail
          /\ conv' = [conv EXCEPT ![h] = getIntercomConversation(mapping, grp[h])]
          /\ Goto(h, IF conv'[h] # Nil THEN "send"
                     ELSE IF grp[h] = NoGroup THEN "done"
                     ELSE "acquire")
       \/ /\ Fail
          /\ Goto(h, "routerCatch")
          /\ UNCHANGED conv
    /\ UNCHANGED <<grp, exc, snap, idx, mapping, lock, queue, convs, expiries, ghosts>>
    /\ UNCHANGED aux

\* lines 133-138: await intercomService.sendMessage(intercomConversationId, ...)
RouterSend(h) ==
    /\ pc[h] = "send"
    /\ \/ /\ NoFail
          /\ convs' = Reply(convs, conv[h], h)
          /\ Goto(h, "done")
       \/ /\ Fail
          /\ Goto(h, "routerRequeue")
          /\ UNCHANGED convs
    /\ UNCHANGED <<grp, locals, mapping, lock, queue, expiries, ghosts>>
    /\ UNCHANGED aux

\* lines 139-142: catch of the bound branch, await queueMessage
RouterRequeue(h) ==
    /\ pc[h] = "routerRequeue"
    /\ \/ /\ NoFail
          /\ Enqueue(h)
          /\ Goto(h, "done")
       \/ /\ Fail
          /\ EnqueueFails(h)
          /\ Goto(h, "routerCatch")
    /\ UNCHANGED <<grp, locals, mapping, lock, convs, expiries,
                   acq, rel, created, dfail>>
    /\ UNCHANGED aux

\* lines 153-157: outer catch of the handler, await queueMessage; a failure
\* of this call rejects the handler's promise
RouterCatch(h) ==
    /\ pc[h] = "routerCatch"
    /\ \/ /\ NoFail
          /\ Enqueue(h)
          /\ Goto(h, "done")
       \/ /\ Fail
          /\ EnqueueFails(h)
          /\ Goto(h, "escaped")
    /\ UNCHANGED <<grp, locals, mapping, lock, convs, expiries,
                   acq, rel, created, dfail>>
    /\ UNCHANGED aux

\* ------------------------------------------- Provisioner: handleNewGroup
\* line 52: await acquireLock(message.groupId)
AcquireLock(h) ==
    /\ pc[h] = "acquire"
    /\ \/ /\ NoFail
          /\ acquireLock(lock, grp[h])
          /\ lock' = [lock EXCEPT ![grp[h]] = h]
          /\ acq' = [acq EXCEPT ![h] = "acquired"]
          /\ Goto(h, "recheck")
       \/ /\ NoFail
          /\ ~acquireLock(lock, grp[h])
          /\ acq' = [acq EXCEPT ![h] = "contended"]
          /\ Goto(h, "contendQueue")
          /\ UNCHANGED lock
       \/ /\ Fail
          /\ acq' = [acq EXCEPT ![h] = "error"]
          /\ Goto(h, "provCatch")
          /\ UNCHANGED lock
    /\ UNCHANGED <<grp, locals, mapping, queue, convs, expiries,
                   rel, created, qcalls, enqOk, dfail>>
    /\ UNCHANGED aux

\* line 60: lock not acquired, await queueMessage
ContendQueue(h) ==
    /\ pc[h] = "contendQueue"
    /\ \/ /\ NoFail
          /\ Enqueue(h)
          /\ Goto(h, "reread")
       \/ /\ Fail
          /\ EnqueueFails(h)
          /\ Goto(h, "provCatch")
    /\ UNCHANGED <<grp, locals, mapping, lock, convs, expiries,
                   acq, rel, created, dfail>>
    /\ UNCHANGED aux

\* lines 63-64: after the 1000 ms wait, return await getIntercomConversation
ReRead(h) ==
    /\ pc[h] = "reread"
    /\ \/ /\ NoFail
          /\ conv' = [conv EXCEPT ![h] = getIntercomConversation(mapping, grp[h])]
          /\ Goto(h, "done")
       \/ /\ Fail
          /\ Goto(h, "provCatch")
          /\ UNCHANGED conv
    /\ UNCHANGED <<grp, exc, snap, idx, mapping, lock, queue, convs, expiries, ghosts>>
    /\ UNCHANGED aux

\* lines 69-72: double check after the lock was acquired
Recheck(h) ==
    /\ pc[h] = "recheck"
    /\ \/ /\ NoFail
          /\ conv' = [conv EXCEPT ![h] = getIntercomConversation(mapping, grp[h])]
          /\ Goto(h, IF conv'[h] # Nil THEN "release" ELSE "create")
          /\ UNCHANGED exc
       \/ /\ Fail
          /\ exc' = [exc EXCEPT ![h] = TRUE]
          /\ Goto(h, "release")
          /\ UNCHANGED conv
    /\ UNCHANGED <<grp, snap, idx, mapping, lock, queue, convs, expiries, ghosts>>
    /\ UNCHANGED aux

\* lines 80-89 and IntercomService.createConversation: contact resolution and
\* conversations.create, then conversations.update; the conversation exists
\* remotely as soon as conversations.create returned
CreateConversation(h) ==
    /\ pc[h] = "create"
    /\ created' = [created EXCEPT ![h] = TRUE]
    /\ \/ /\ NoFail       \* all remote calls succeed
          /\ convs' = Append(convs, [grp |-> grp[h], msgs |-> <<h>>])
          /\ conv' = [conv EXCEPT ![h] = Len(convs) + 1]
          /\ Goto(h, "save")
          /\ UNCHANGED exc
       \/ /\ Fail         \* getOrCreateContact or conversations.create throws
          /\ exc' = [exc EXCEPT ![h] = TRUE]
          /\ Goto(h, "release")
          /\ UNCHANGED <<convs, conv>>
       \/ /\ Fail         \* conversations.update throws
          /\ convs' = Append(convs, [grp |-> grp[h], msgs |-> <<h>>])
          /\ exc' = [exc EXCEPT ![h] = TRUE]
          /\ Goto(h, "release")
          /\ UNCHANGED conv
    /\ UNCHANGED <<grp, snap, idx, mapping, lock, queue, expiries,
                   acq, rel, qcalls, enqOk, dfail>>
    /\ UNCHANGED aux

\* mutant of SaveGroupMapping: the binding is saved without lastMessageId
SaveGroupMapping_NoLast(h) ==
    /\ pc[h] = "save"
    /\ \/ /\ NoFail
          /\ mapping' = saveGroupMapping(mapping, grp[h], conv[h], NoId)
          /\ Goto(h, "drainRead")
          /\ UNCHANGED exc
       \/ /\ Fail
          /\ exc' = [exc EXCEPT ![h] = TRUE]
          /\ Goto(h, "release")
          /\ UNCHANGED mapping
    /\ UNCHANGED <<grp, conv, snap, idx, lock, queue, convs, expiries, ghosts>>
    /\ UNCHANGED aux

\* lines 92-96: await saveGroupMapping({groupId, conversationId, message.id})
SaveGroupMapping(h) ==
    /\ pc[h] = "save"
    /\ \/ /\ NoFail
          /\ mapping' = saveGroupMapping(mapping, grp[h], conv[h], h)
          /\ Goto(h, "drainRead")
          /\ UNCHANGED exc
       \/ /\ Fail
          /\ exc' = [exc EXCEPT ![h] = TRUE]
          /\ Goto(h, "release")
          /\ UNCHANGED mapping
    /\ UNCHANGED <<grp, conv, snap, idx, lock, queue, convs, expiries, ghosts>>
    /\ UNCHANGED aux

\* ------------------------------------ Provisioner: processQueuedMessages
\* where the for-of loop over `messages` stands after the element at i
AfterElement(h, i) == IF i >= Len(snap[h]) THEN "drainClear" ELSE "drainSend"

\* line 17: await getQueuedMessages(groupId); a throw is caught at line 39
DrainRead(h) ==
    /\ pc[h] = "drainRead"
    /\ \/ /\ NoFail
          /\ snap' = [snap EXCEPT ![h] = getQueuedMessages(queue, grp[h])]
          /\ idx' = [idx EXCEPT ![h] = 1]
          /\ Goto(h, IF snap'[h] = <<>> THEN "drainClear" ELSE "drainSend")
       \/ /\ Fail
          /\ Goto(h, "release")
          /\ UNCHANGED <<snap, idx>>
    /\ UNCHANGED <<grp, conv, exc, mapping, lock, queue, convs, expiries, ghosts>>
    /\ UNCHANGED aux

\* mutant of DrainSend: no try/catch around the send of one element, a throw
\* leaves the loop
DrainSend_Aborts(h) ==
    /\ pc[h] = "drainSend"
    /\ LET m == snap[h][idx[h]].m IN
       \/ /\ NoFail
          /\ convs' = Reply(convs, conv[h], m)
          /\ idx' = [idx EXCEPT ![h] = @ + 1]
          /\ Goto(h, AfterElement(h, idx[h]))
          /\ UNCHANGED dfail
       \/ /\ Fail
          /\ dfail' = [dfail EXCEPT ![h] = @ \cup {m}]
          /\ Goto(h, "release")
          /\ UNCHANGED <<convs, idx>>
    /\ UNCHANGED <<grp, conv, exc, snap, mapping, lock, queue, expiries,
                   acq, rel, created, qcalls, enqOk>>
    /\ UNCHANGED aux

\* lines 25-29: await sendMessage(conversationId, format(message), ...)
DrainSend(h) ==
    /\ pc[h] = "drainSend"
    /\ LET m == snap[h][idx[h]].m IN
       \/ /\ NoFail
          /\ convs' = Reply(convs, conv[h], m)
          /\ idx' = [idx EXCEPT ![h] = @ + 1]
          /\ Goto(h, AfterElement(h, idx[h]))
          /\ UNCHANGED dfail
       \/ /\ Fail
          /\ dfail' = [dfail EXCEPT ![h] = @ \cup {m}]
          /\ Goto(h, "drainRequeue")
          /\ UNCHANGED <<convs, idx>>
    /\ UNCHANGED <<grp, conv, exc, snap, mapping, lock, queue, expiries,
                   acq, rel, created, qcalls, enqOk>>
    /\ UNCHANGED aux

\* mutant of DrainRequeue: the element that failed is tried again
DrainRequeue_Retries(h) ==
    /\ pc[h] = "drainRequeue"
    /\ \/ /\ NoFail
          /\ queue' = queueMessage(queue, grp[h], snap[h][idx[h]].m)
          /\ Goto(h, "drainSend")
       \/ /\ Fail
          /\ Goto(h, "release")
          /\ UNCHANGED queue
    /\ UNCHANGED <<grp, conv, exc, snap, idx, mapping, lock, convs, expiries,
                   ghosts>>
    /\ UNCHANGED aux

\* lines 30-34: catch of one element, await queueMessage(groupId, message);
\* a throw leaves the loop and is caught at line 39 (no clear)
DrainRequeue(h) ==
    /\ pc[h] = "drainRequeue"
    /\ \/ /\ NoFail
          /\ queue' = queueMessage(queue, grp[h], snap[h][idx[h]].m)
          /\ idx' = [idx EXCEPT ![h] = @ + 1]
          /\ Goto(h, AfterElement(h, idx[h]))
       \/ /\ Fail
          /\ Goto(h, "release")
          /\ UNCHANGED <<queue, idx>>
    /\ UNCHANGED <<grp, conv, exc, snap, mapping, lock, convs, expiries, ghosts>>
    /\ UNCHANGED aux

\* mutant of DrainClear: processQueuedMessages has no outer catch, a throw of
\* clearMessageQueue reaches handleNewGroup
DrainClear_Throws(h) ==
    /\ pc[h] = "drainClear"
    /\ \/ /\ NoFail
          /\ queue' = clearMessageQueue(queue, grp[h])
          /\ UNCHANGED exc
       \/ /\ Fail
          /\ exc' = [exc EXCEPT ![h] = TRUE]
          /\ UNCHANGED queue
    /\ Goto(h, "release")
    /\ UNCHANGED <<grp, conv, snap, idx, mapping, lock, convs, expiries, ghosts>>
    /\ UNCHANGED aux

\* line 38: await clearMessageQueue(groupId); a throw is caught at line 39
DrainClear(h) ==
    /\ pc[h] = "drainClear"
    /\ \/ /\ NoFail
          /\ queue' = clearMessageQueue(queue, grp[h])
       \/ /\ Fail
          /\ UNCHANGED queue
    /\ Goto(h, "release")
    /\ UNCHANGED <<grp, locals, mapping, lock, convs, expiries, ghosts>>
    /\ UNCHANGED aux

\* mutant of ReleaseLock: the release is not in a finally block, an exception
\* of the try block skips it
ReleaseLock_OnlyOnSuccess(h) ==
    /\ pc[h] = "release"
    /\ \/ /\ NoFail
          /\ ~exc[h]
          /\ lock' = releaseLock(lock, grp[h])
          /\ rel' = [rel EXCEPT ![h] = "released"]
          /\ Goto(h, "done")
       \/ /\ NoFail
          /\ exc[h]
          /\ Goto(h, "provCatch")
          /\ UNCHANGED <<lock, rel>>
       \/ /\ Fail
          /\ rel' = [rel EXCEPT ![h] = "error"]
          /\ Goto(h, "provCatch")
          /\ UNCHANGED lock
    /\ exc' = [exc EXCEPT ![h] = FALSE]
    /\ snap' = [snap EXCEPT ![h] = <<>>]
    /\ idx' = [idx EXCEPT ![h] = 0]
    /\ dfail' = [dfail EXCEPT ![h] = {}]
    /\ UNCHANGED <<grp, conv, mapping, queue, convs, expiries,
                   acq, created, qcalls, enqOk>>
    /\ UNCHANGED aux

\* lines 107-110: finally { await releaseLock(message.groupId) }, then the
\* return of the try block or the exception that was propagating
ReleaseLock(h) ==
    /\ pc[h] = "release"
    /\ \/ /\ NoFail
          /\ lock' = releaseLock(lock, grp[h])
          /\ rel' = [rel EXCEPT ![h] = "released"]
          /\ Goto(h, IF exc[h] THEN "provCatch" ELSE "done")
       \/ /\ Fail
          /\ rel' = [rel EXCEPT ![h] = "error"]
          /\ Goto(h, "provCatch")
          /\ UNCHANGED lock
    /\ exc' = [exc EXCEPT ![h] = FALSE]
    /\ snap' = [snap EXCEPT ![h] = <<>>]
    /\ idx' = [idx EXCEPT ![h] = 0]
    /\ dfail' = [dfail EXCEPT ![h] = {}]
    /\ UNCHANGED <<grp, conv, mapping, queue, convs, expiries,
                   acq, created, qcalls, enqOk>>
    /\ UNCHANGED aux

\* mutant of ProvCatch: the catch logs and returns null without queueing
ProvCatch_NoQueue(h) ==
    /\ pc[h] = "provCatch"
    /\ NoFail
    /\ Goto(h, "done")
    /\ conv' = [conv EXCEPT ![h] = Nil]
    /\ UNCHANGED <<grp, exc, snap, idx, mapping, lock, queue, convs, expiries,
                   ghosts>>
    /\ UNCHANGED aux

\* lines 111-116: catch { await queueMessage(...); return null }; a throw of
\* this call propagates to the Router's catch
ProvCatch(h) ==
    /\ pc[h] = "provCatch"
    /\ \/ /\ NoFail
          /\ Enqueue(h)
          /\ Goto(h, "done")
       \/ /\ Fail
          /\ EnqueueFails(h)
          /\ Goto(h, "routerCatch")
    /\ conv' = [conv EXCEPT ![h] = Nil]
    /\ UNCHANGED <<grp, exc, snap, idx, mapping, lock, convs, expiries,
                   acq, rel, created, dfail>>
    /\ UNCHANGED aux

\* ------------------------------------------------------------ environment
\* EX LOCK_TTL: the lock key disappears 30 s after it was set, wherever the
\* handler that set it stands
LockExpire(g) ==
    /\ lock[g] # 0
    /\ expiries < MaxExpiries
    /\ lock' = [lock EXCEPT ![g] = 0]
    /\ expiries' = expiries + 1
    /\ UNCHANGED <<pc, grp, locals, mapping, queue, convs, faults, ghosts>>
    /\ UNCHANGED aux

Next ==
    \/ \E h \in Handlers : RouterLookup(h)
    \/ \E h \in Handlers : RouterSend(h)
    \/ \E h \in Handlers : RouterRequeue(h)
    \/ \E h \in Handlers : RouterCatch(h)
    \/ \E h \in Handlers : AcquireLock(h)
    \/ \E h \in Handlers : ContendQueue(h)
    \/ \E h \in Handlers : ReRead(h)
    \/ \E h \in Handlers : Recheck(h)
    \/ \E h \in Handlers : CreateConversation(h)
    \/ \E h \in Handlers : SaveGroupMapping(h)
    \/ \E h \in Handlers : DrainRead(h)
    \/ \E h \in Handlers : DrainSend(h)
    \/ \E h \in Handlers : DrainRequeue(h)
    \/ \E h \in Handlers : DrainClear(h)
    \/ \E h \in Handlers : ReleaseLock(h)
    \/ \E h \in Handlers : ProvCatch(h)
    \/ \E g \in Groups : LockExpire(g)

Spec == Init /\ [][Next]_vars

\* ------------------------------------------- a provisioning that crashes
\* the positions of handleNewGroup between acquireLock and releaseLock
InLockedSectionPc(p) ==
    p \in {"recheck", "create", "save", "drainRead", "drainSend",
           "drainRequeue", "drainClear", "release"}

\* the process running handler h dies between its acquireLock and its
\* releaseLock: h takes no further step, its finally block never runs
Crash(h) ==
    /\ InLockedSectionPc(pc[h])
    /\ \A k \in Handlers : pc[k] # "crashed"
    /\ Goto(h, "crashed")
    /\ UNCHANGED <<grp, locals, mapping, lock, queue, convs, faults, expiries,
                   ghosts>>
    /\ UNCHANGED aux

\* mutant of LockTimeout: the key was set without EX and stays
LockTimeout_NoTTL(g) ==
    /\ lock[g] # 0
    /\ UNCHANGED vars

\* EX LOCK_TTL: a lock key that is set disappears 30 s later; the store does
\* this for every key, however many have expired before
LockTimeout(g) ==
    /\ lock[g] # 0
    /\ lock' = [lock EXCEPT ![g] = 0]
    /\ UNCHANGED <<pc, grp, locals, mapping, queue, convs, faults, expiries,
                   ghosts>>
    /\ UNCHANGED aux

\* two messages for g1, the other messages without group
InitCrash ==
    /\ Init
    /\ grp = [h \in Handlers |-> IF h <= 2 THEN "g1" ELSE NoGroup]

NextCrash ==
    \/ \E h \in Handlers : RouterLookup(h)
    \/ \E h \in Handlers : RouterSend(h)
    \/ \E h \in Handlers : RouterRequeue(h)
    \/ \E h \in Handlers : RouterCatch(h)
    \/ \E h \in Handlers : AcquireLock(h)
    \/ \E h \in Handlers : ContendQueue(h)
    \/ \E h \in Handlers : ReRead(h)
    \/ \E h \in Handlers : Recheck(h)
    \/ \E h \in Handlers : CreateConversation(h)
    \/ \E h \in Handlers : SaveGroupMapping(h)
    \/ \E h \in Handlers : DrainRead(h)
    \/ \E h \in Handlers : DrainSend(h)
    \/ \E h \in Handlers : DrainRequeue(h)
    \/ \E h \in Handlers : DrainClear(h)
    \/ \E h \in Handlers : ReleaseLock(h)
    \/ \E h \in Handlers : ProvCatch(h)
    \/ \E h \in Handlers : Crash(h)
    \/ \E g \in Groups : LockTimeout(g)

\* the store expires every key that stays set
SpecCrash ==
    /\ InitCrash
    /\ [][NextCrash]_vars
    /\ \A g \in Groups : WF_vars(LockTimeout(g))

\* ------------------------------------- conversation-platform message path
\* ids of the admins who write replies: the platform numbers admins and
\* conversations separately
AdminIds == {NumConvIds + 2, NumConvIds + 3}
Attachments == 0..MaxAttachments

\* groups g1 and g2 were bound by messages 1 and 2 with no call failing, the
\* other source messages carried no group; conversation 3 was opened on the
\* platform by someone else and belongs to no group
InitReply ==
    /\ pc = [h \in Handlers |-> "done"]
    /\ grp = [h \in Handlers |-> IF h = 1 THEN "g1" ELSE IF h = 2 THEN "g2" ELSE NoGroup]
    /\ conv = [h \in Handlers |-> IF h <= 2 THEN h ELSE Nil]
    /\ exc = [h \in Handlers |-> FALSE]
    /\ snap = [h \in Handlers |-> <<>>]
    /\ idx = [h \in Handlers |-> 0]
    /\ mapping = saveGroupMapping(
                     saveGroupMapping([g \in Keys |-> EmptyHash], "g1", 1, 1),
                     "g2", 2, 2)
    /\ lock = [g \in Keys |-> 0]
    /\ queue = [g \in Keys |-> <<>>]
    /\ convs = <<[grp |-> "g1", msgs |-> <<1>>], [grp |-> "g2", msgs |-> <<2>>],
                 [grp |-> NoGroup, msgs |-> <<>>]>>
    /\ faults = 0
    /\ expiries = 0
    /\ acq = [h \in Handlers |-> IF h <= 2 THEN "acquired" ELSE "none"]
    /\ rel = [h \in Handlers |-> IF h <= 2 THEN "released" ELSE "none"]
    /\ created = [h \in Handlers |-> h <= 2]
    /\ qcalls = [h \in Handlers |-> 0]
    /\ enqOk = [h \in Handlers |-> FALSE]
    /\ dfail = [h \in Handlers |-> {}]
    /\ rpc = "idle"
    /\ rmsg = NoMessage
    /\ rgroup = Absent
    /\ ridx = 0
    /\ tgsent = <<>>
    /\ saved = [g \in Keys |-> <<>>]
    /\ call = [g \in Groups |-> NoCall]
    /\ goc = NoInvocation
    /\ contactMapping = [u \in Users |-> NoContactKey]
    /\ remoteContacts = <<>>
    /\ ipc = "idle"
    /\ req = NoBody
    /\ res = 0
    /\ ctx = NoUpdate
    /\ emitted = NoEmit

\* the handlers of source messages, the store and the conversations
bridgeSide == <<pc, grp, locals, mapping, lock, queue, convs, expiries, ghosts,
                saved, call, contactVars, inboundVars>>

\* intercom.service.ts 289-336, startPolling: a Message for the last part of
\* a listed conversation; sender.id and groupId are conversation.id
PollingEmit(c, n) ==
    /\ rpc = "idle"
    /\ rmsg' = [via |-> "polling", conversationId |-> c, senderId |-> c,
                attachments |-> n]
    /\ rpc' = "lookup"
    /\ UNCHANGED <<bridgeSide, faults, rgroup, ridx, tgsent>>

\* bridge.service.ts 658-739, the webhook endpoint: a Message for an admin
\* comment in a conversation that carries telegram_group_id; sender.id is
\* latestPart.author.id
WebhookEmit(c, a, n) ==
    /\ rpc = "idle"
    /\ convs[c].grp # NoGroup
    /\ rmsg' = [via |-> "webhook", conversationId |-> c, senderId |-> a,
                attachments |-> n]
    /\ rpc' = "lookup"
    /\ UNCHANGED <<bridgeSide, faults, rgroup, ridx, tgsent>>

\* mutant of ReplyLookup: with no group found the handler falls back to the
\* first group
ReplyLookup_FallsBack ==
    /\ rpc = "lookup"
    /\ \/ /\ NoFail
          /\ \E g \in getTelegramGroup(mapping, rmsg.senderId) :
                /\ rgroup' = IF g = Absent THEN "g1" ELSE g
                /\ rpc' = "sendText"
       \/ /\ Fail
          /\ rpc' = "done"
          /\ UNCHANGED rgroup
    /\ UNCHANGED <<bridgeSide, rmsg, ridx, tgsent>>

\* lines 167-169, 191-197: getTelegramGroup(message.sender.id); no group:
\* warn and return; a throw is logged by the catch
ReplyLookup ==
    /\ rpc = "lookup"
    /\ \/ /\ NoFail
          /\ \E g \in getTelegramGroup(mapping, rmsg.senderId) :
                /\ rgroup' = g
                /\ rpc' = IF g = Absent THEN "done" ELSE "sendText"
       \/ /\ Fail
          /\ rpc' = "done"
          /\ UNCHANGED rgroup
    /\ UNCHANGED <<bridgeSide, rmsg, ridx, tgsent>>

\* lines 174-177: telegramService.sendMessage(telegramGroupId, text)
ReplySendText ==
    /\ rpc = "sendText"
    /\ \/ /\ NoFail
          /\ tgsent' = Append(tgsent, [group |-> rgroup, kind |-> "text", att |-> 0])
          /\ IF rmsg.attachments > 0
             THEN rpc' = "sendFile" /\ ridx' = 1
             ELSE rpc' = "done" /\ UNCHANGED ridx
       \/ /\ Fail
          /\ rpc' = "done"
          /\ UNCHANGED <<tgsent, ridx>>
    /\ UNCHANGED <<bridgeSide, rmsg, rgroup>>

\* mutant of ReplySendFile: the loop goes over the attachments from the last
\* to the first
ReplySendFile_Reversed ==
    /\ rpc = "sendFile"
    /\ \/ /\ NoFail
          /\ tgsent' = Append(tgsent, [group |-> rgroup, kind |-> "file",
                                       att |-> rmsg.attachments + 1 - ridx])
          /\ IF ridx < rmsg.attachments
             THEN ridx' = ridx + 1 /\ UNCHANGED rpc
             ELSE rpc' = "done" /\ UNCHANGED ridx
       \/ /\ Fail
          /\ rpc' = "done"
          /\ UNCHANGED <<tgsent, ridx>>
    /\ UNCHANGED <<bridgeSide, rmsg, rgroup>>

\* lines 179-187: one iteration of the loop over message.attachments; a
\* sendFile that throws leaves the loop for the catch
ReplySendFile ==
    /\ rpc = "sendFile"
    /\ \/ /\ NoFail
          /\ tgsent' = Append(tgsent, [group |-> rgroup, kind |-> "file", att |-> ridx])
          /\ IF ridx < rmsg.attachments
             THEN ridx' = ridx + 1 /\ UNCHANGED rpc
             ELSE rpc' = "done" /\ UNCHANGED ridx
       \/ /\ Fail
          /\ rpc' = "done"
          /\ UNCHANGED <<tgsent, ridx>>
    /\ UNCHANGED <<bridgeSide, rmsg, rgroup>>

NextReply ==
    \/ \E c \in 1..Len(convs), n \in Attachments : PollingEmit(c, n)
    \/ \E c \in 1..Len(convs), a \in AdminIds, n \in Attachments :
           WebhookEmit(c, a, n)
    \/ ReplyLookup
    \/ ReplySendText
    \/ ReplySendFile

SpecReply == InitReply /\ [][NextReply]_vars

\* ------------------------------------------------- the mapping store alone
\* the store driven directly through its interface: any caller, any order
ConvIds == 1..NumConvIds
MessageIds == Handlers

InitStore ==
    /\ Init
    /\ grp = [h \in Handlers |-> "g1"]

StoreSave(g, c, last) ==
    /\ Len(saved[g]) < MaxSaves
    /\ mapping' = saveGroupMapping(mapping, g, c, last)
    /\ saved' = [saved EXCEPT ![g] = Append(@, c)]
    /\ call' = [call EXCEPT ![g] = [op |-> "saveGroupMapping", arg |-> c,
                                    ok |-> TRUE]]
    /\ UNCHANGED <<pc, grp, locals, lock, queue, convs, faults, expiries,
                   ghosts, rpc, rmsg, rgroup, ridx, tgsent, contactVars,
                   inboundVars>>

\* ok: the hash had the field already (hSet added no field)
StoreUpdateLast(g, id) ==
    /\ mapping' = updateLastMessageId(mapping, g, id)
    /\ call' = [call EXCEPT ![g] = [op |-> "updateLastMessageId", arg |-> id,
                                    ok |-> hasGroupMapping(mapping, g)]]
    /\ UNCHANGED <<pc, grp, locals, lock, queue, convs, faults, expiries,
                   ghosts, rpc, rmsg, rgroup, ridx, tgsent, saved,
                   contactVars, inboundVars>>

NextStore ==
    \/ \E g \in Groups, c \in ConvIds, last \in MessageIds \cup {NoId} :
           StoreSave(g, c, last)
    \/ \E g \in Groups, id \in MessageIds : StoreUpdateLast(g, id)

SpecStore == InitStore /\ [][NextStore]_vars

\* ------------------------------------------------- contact resolution
\* IntercomService.getOrCreateContact, one action per await, called for any
\* user any number of times; the cache key may expire or be invalidated at
\* any moment
GocThrow(e) == [goc EXCEPT !.pc = "threw", !.err = e]

\* getOrCreateContact(userId, ...) is called
ContactStart(u) ==
    /\ goc.pc \in {"idle", "returned", "threw"}
    /\ goc' = [NoInvocation EXCEPT !.pc = "getCache", !.user = u]
    /\ UNCHANGED <<contactMapping, remoteContacts, pc, grp, locals, mapping,
                   lock, queue, convs, expiries, ghosts, saved, call, faults,
                   rpc, rmsg, rgroup, ridx, tgsent, inboundVars>>

\* mutant of ContactGetCache: the cached id is read and not used
ContactGetCache_Ignored ==
    /\ goc.pc = "getCache"
    /\ \/ goc' = [goc EXCEPT !.cached = getContactMapping(contactMapping, goc.user),
                            !.miss = contactMapping[goc.user].why,
                            !.pc = "create"]
       \/ goc' = GocThrow("getContactMapping")
    /\ UNCHANGED <<contactMapping, remoteContacts, pc, grp, locals, mapping,
                   lock, queue, convs, expiries, ghosts, saved, call, faults,
                   rpc, rmsg, rgroup, ridx, tgsent, inboundVars>>

\* lines 754-761: await getContactMapping(userId); a cached id is returned
\* as { id }; a throw reaches the outer catch, which rethrows
ContactGetCache ==
    /\ goc.pc = "getCache"
    /\ \/ LET cachedContactId == getContactMapping(contactMapping, goc.user) IN
          goc' = IF cachedContactId # Nil
                 THEN [goc EXCEPT !.cached = cachedContactId,
                                  !.ret = cachedContactId, !.pc = "returned"]
                 ELSE [goc EXCEPT !.miss = contactMapping[goc.user].why,
                                  !.pc = "create"]
       \/ goc' = GocThrow("getContactMapping")
    /\ UNCHANGED <<contactMapping, remoteContacts, pc, grp, locals, mapping,
                   lock, queue, convs, expiries, ghosts, saved, call, faults,
                   rpc, rmsg, rgroup, ridx, tgsent, inboundVars>>

\* lines 783-786: await contacts.create; the workspace answers 409 when it
\* has a contact with this external_id; any other error is rethrown
ContactCreate ==
    /\ goc.pc = "create"
    /\ \/ /\ ContactOf(remoteContacts, goc.user) = Nil
          /\ remoteContacts' = Append(remoteContacts, goc.user)
          /\ goc' = [goc EXCEPT !.did = @ \cup {"create"},
                                !.contact = Len(remoteContacts) + 1,
                                !.pc = "saveNew"]
       \/ /\ ContactOf(remoteContacts, goc.user) # Nil      \* 409
          /\ goc' = [goc EXCEPT !.did = @ \cup {"create"}, !.pc = "search"]
          /\ UNCHANGED remoteContacts
       \/ /\ goc' = [GocThrow("create") EXCEPT !.did = @ \cup {"create"}]
          /\ UNCHANGED remoteContacts
    /\ UNCHANGED <<contactMapping, pc, grp, locals, mapping,
                   lock, queue, convs, expiries, ghosts, saved, call, faults,
                   rpc, rmsg, rgroup, ridx, tgsent, inboundVars>>

\* lines 794-795: await saveContactMapping(userId, newContact.id); return
\* newContact; a throw is caught at 796, is no 409, and is rethrown
ContactSaveNew ==
    /\ goc.pc = "saveNew"
    /\ \/ /\ contactMapping' = saveContactMapping(contactMapping, goc.user,
                                                   goc.contact)
          /\ goc' = [goc EXCEPT !.did = @ \cup {"save"}, !.ret = goc.contact,
                                !.pc = "returned"]
       \/ /\ goc' = GocThrow("saveContactMapping")
          /\ UNCHANGED contactMapping
    /\ UNCHANGED <<remoteContacts, pc, grp, locals, mapping,
                   lock, queue, convs, expiries, ghosts, saved, call, faults,
                   rpc, rmsg, rgroup, ridx, tgsent, inboundVars>>

\* lines 801-821: await contacts.search by external_id and role user; with
\* total_count 0 (the contact of that external_id is no user) the code falls
\* through to the rethrow of the 409; a throw of the search leaves the catch
ContactSearch ==
    /\ goc.pc = "search"
    /\ \/ goc' = [goc EXCEPT !.did = @ \cup {"search"},
                            !.contact = ContactOf(remoteContacts, goc.user),
                            !.pc = "update"]
       \/ goc' = [GocThrow("conflict") EXCEPT !.did = @ \cup {"search"}]
       \/ goc' = [GocThrow("search") EXCEPT !.did = @ \cup {"search"}]
    /\ UNCHANGED <<contactMapping, remoteContacts, pc, grp, locals, mapping,
                   lock, queue, convs, expiries, ghosts, saved, call, faults,
                   rpc, rmsg, rgroup, ridx, tgsent, inboundVars>>

\* lines 831-841: await contacts.update(existingContact.id, ...)
ContactUpdate ==
    /\ goc.pc = "update"
    /\ \/ goc' = [goc EXCEPT !.did = @ \cup {"update"}, !.pc = "saveExisting"]
       \/ goc' = [GocThrow("update") EXCEPT !.did = @ \cup {"update"}]
    /\ UNCHANGED <<contactMapping, remoteContacts, pc, grp, locals, mapping,
                   lock, queue, convs, expiries, ghosts, saved, call, faults,
                   rpc, rmsg, rgroup, ridx, tgsent, inboundVars>>

\* mutant of ContactSaveExisting: the updated contact is returned uncached
ContactSaveExisting_Uncached ==
    /\ goc.pc = "saveExisting"
    /\ \/ goc' = [goc EXCEPT !.ret = goc.contact, !.pc = "returned"]
       \/ goc' = GocThrow("saveContactMapping")
    /\ UNCHANGED <<contactMapping, remoteContacts, pc, grp, locals, mapping,
                   lock, queue, convs, expiries, ghosts, saved, call, faults,
                   rpc, rmsg, rgroup, ridx, tgsent, inboundVars>>

\* lines 851-852: await saveContactMapping(userId, updatedContact.id);
\* return updatedContact
ContactSaveExisting ==
    /\ goc.pc = "saveExisting"
    /\ \/ /\ contactMapping' = saveContactMapping(contactMapping, goc.user,
                                                   goc.contact)
          /\ goc' = [goc EXCEPT !.did = @ \cup {"save"}, !.ret = goc.contact,
                                !.pc = "returned"]
       \/ /\ goc' = GocThrow("saveContactMapping")
          /\ UNCHANGED contactMapping
    /\ UNCHANGED <<remoteContacts, pc, grp, locals, mapping,
                   lock, queue, convs, expiries, ghosts, saved, call, faults,
                   rpc, rmsg, rgroup, ridx, tgsent, inboundVars>>

\* EX CONTACT_TTL: the key disappears 24 h after it was set
ContactExpire(u) ==
    /\ contactMapping[u].id # Nil
    /\ contactMapping' = [contactMapping EXCEPT
                              ![u] = [id |-> Nil, why |-> "expired"]]
    /\ UNCHANGED <<goc, remoteContacts, pc, grp, locals, mapping,
                   lock, queue, convs, expiries, ghosts, saved, call, faults,
                   rpc, rmsg, rgroup, ridx, tgsent, inboundVars>>

\* invalidateContactMapping(u), by any caller
ContactInvalidate(u) ==
    /\ contactMapping[u].id # Nil
    /\ contactMapping' = invalidateContactMapping(contactMapping, u)
    /\ UNCHANGED <<goc, remoteContacts, pc, grp, locals, mapping,
                   lock, queue, convs, expiries, ghosts, saved, call, faults,
                   rpc, rmsg, rgroup, ridx, tgsent, inboundVars>>

NextContact ==
    \/ \E u \in Users : ContactStart(u)
    \/ ContactGetCache
    \/ ContactCreate
    \/ ContactSaveNew
    \/ ContactSearch
    \/ ContactUpdate
    \/ ContactSaveExisting
    \/ \E u \in Users : ContactExpire(u)
    \/ \E u \in Users : ContactInvalidate(u)

SpecContact == InitStore /\ [][NextContact]_vars

\* ------------------------------------------- the inbound webhook adapter
\* IntercomService.initializeWebhookServer: POST /webhook/intercom, any body
notInbound == <<pc, grp, locals, mapping, lock, queue, convs, expiries, ghosts,
                saved, call, contactVars, faults, rpc, rmsg, rgroup, ridx,
                tgsent>>

\* data.item.conversation_parts.conversation_parts, [] when missing
ConversationPart == [partType : {"comment", "note"},
                     authorType : {"admin", "user"}]
PartLists ==
    UNION {[1..n -> ConversationPart] : n \in 0..MaxParts}

\* req.body: type, data.item.type, the parts, data.item.source.type and the
\* two custom attributes; Absent: the field (or its parent) is missing
Bodies == [type : {"notification_event", "ping"},
           itemType : {"conversation", Absent},
           parts : PartLists,
           source : {"automated", "operator", "conversation", Absent},
           tgid : {Absent, "", "g1"},
           tgname : {Absent, "G1"}]

\* line 662: const latestPart = conversationParts[0]
latestPart(body) ==
    IF body.parts = <<>> THEN [partType |-> Absent, authorType |-> Absent]
    ELSE body.parts[1]

\* lines 673-676: the test of the outer if
isAdminComment(body) ==
    /\ body.type = "notification_event"
    /\ body.itemType = "conversation"
    /\ latestPart(body).partType = "comment"
    /\ latestPart(body).authorType = "admin"

\* a request arrives; the handler keeps nothing from one request to the
\* next, so one request is followed
WebhookPost(body) ==
    /\ ipc = "idle"
    /\ ipc' = "received"
    /\ req' = body
    /\ UNCHANGED <<res, emitted, ctx, notInbound>>

\* mutant of WebhookHandle: no test of conversation.source.type
WebhookHandle_AnySource ==
    /\ ipc = "received"
    /\ ipc' = "handled"
    /\ IF ~isAdminComment(req) THEN res' = 200 /\ UNCHANGED emitted
       ELSE IF req.tgid \in {Absent, ""} THEN res' = 200 /\ UNCHANGED emitted
       ELSE IF req.source = Absent THEN res' = 500 /\ UNCHANGED emitted
       ELSE /\ emitted' = [groupId |-> req.tgid,
                           groupName |-> IF req.tgname = Absent
                                         THEN "Intercom Conversation"
                                         ELSE req.tgname]
            /\ res' = 200
    /\ UNCHANGED <<req, ctx, notInbound>>

\* lines 658-739: the handler of one request.  Outer if false: log, 200.
\* source automated or operator: 200.  telegram_group_id missing or empty:
\* 200.  Otherwise the Message is built and, after the log line that reads
\* conversation.source.type (a TypeError when the payload has no source,
\* caught at 735 and answered 500), emitted, then 200.
WebhookHandle ==
    /\ ipc = "received"
    /\ ipc' = "handled"
    /\ IF ~isAdminComment(req) THEN res' = 200 /\ UNCHANGED emitted
       ELSE IF req.source \in {"automated", "operator"}
            THEN res' = 200 /\ UNCHANGED emitted
       ELSE IF req.tgid \in {Absent, ""} THEN res' = 200 /\ UNCHANGED emitted
       ELSE IF req.source = Absent THEN res' = 500 /\ UNCHANGED emitted
       ELSE /\ emitted' = [groupId |-> req.tgid,
                           groupName |-> IF req.tgname = Absent
                                         THEN "Intercom Conversation"
                                         ELSE req.tgname]
            /\ res' = 200
    /\ UNCHANGED <<req, ctx, notInbound>>

NextWebhook ==
    \/ \E body \in Bodies : WebhookPost(body)
    \/ WebhookHandle

SpecWebhook == InitStore /\ [][NextWebhook]_vars

\* ----------------------------------- the inbound source-platform adapter
\* TelegramService.setupEventHandlers: bot.on('message'), any update

\* Number.prototype.toString of an integer, in decimal
RECURSIVE toString(_)
toString(n) ==
    IF n < 0 THEN "-" \o toString(0 - n)
    ELSE IF n < 10
         THEN <<"0", "1", "2", "3", "4", "5", "6", "7", "8", "9">>[n + 1]
         ELSE toString(n \div 10) \o toString(n % 10)

\* ctx: chat.type (Absent: ctx.chat is undefined), chat.id, chat.title,
\* whether ctx.message is a message with message_id, and whether it has from
ChatIds == {-12, -1, 1, 12}
Updates == [chatType : {"private", "group", "supergroup", "channel", Absent},
            chatId : ChatIds,
            title : {Absent, "", "Team"},
            hasMessage : BOOLEAN,
            hasFrom : BOOLEAN]

\* lines 424-498: convertToMessage, the fields of the Message read here
convertToMessage(c) ==
    [groupId |-> toString(c.chatId),
     groupName |-> IF c.title \in {Absent, ""} THEN "Unknown Group"
                   ELSE c.title]

\* an update arrives; the handler keeps nothing from one update to the next
TelegramUpdate(c) ==
    /\ ipc = "idle"
    /\ ipc' = "received"
    /\ ctx' = c
    /\ UNCHANGED <<req, res, emitted, notInbound>>

\* mutant of TelegramHandle: no test of the chat type
TelegramHandle_AnyChat ==
    /\ ipc = "received"
    /\ IF ~ctx.hasMessage THEN ipc' = "handled" /\ UNCHANGED emitted
       ELSE IF ~ctx.hasFrom THEN ipc' = "threw" /\ UNCHANGED emitted
       ELSE ipc' = "handled" /\ emitted' = convertToMessage(ctx)
    /\ UNCHANGED <<req, res, ctx, notInbound>>

\* lines 326-348 and 424-498: return unless the chat is a group or a
\* supergroup; convertToMessage returns null without a message; it reads
\* from.id (a TypeError when the message has no from, which rejects the
\* handler); otherwise the Message is emitted
TelegramHandle ==
    /\ ipc = "received"
    /\ IF ctx.chatType \notin {"group", "supergroup"}
       THEN ipc' = "handled" /\ UNCHANGED emitted
       ELSE IF ~ctx.hasMessage THEN ipc' = "handled" /\ UNCHANGED emitted
       ELSE IF ~ctx.hasFrom THEN ipc' = "threw" /\ UNCHANGED emitted
       ELSE ipc' = "handled" /\ emitted' = convertToMessage(ctx)
    /\ UNCHANGED <<req, res, ctx, notInbound>>

NextTelegram ==
    \/ \E c \in Updates : TelegramUpdate(c)
    \/ TelegramHandle

SpecTelegram == InitStore /\ [][NextTelegram]_vars

\* --------------------------------------------------- the lock keys alone
\* acquireLock and releaseLock called directly, by any caller in any order

\* caller h calls acquireLock(g); ok: the result; the key is set on 'OK'
StoreAcquire(g, h) ==
    /\ lock' = IF acquireLock(lock, g) THEN [lock EXCEPT ![g] = h] ELSE lock
    /\ call' = [call EXCEPT ![g] = [op |-> "acquireLock", arg |-> h,
                                    ok |-> acquireLock(lock, g)]]
    /\ UNCHANGED <<pc, grp, locals, mapping, queue, convs, faults, expiries,
                   ghosts, rpc, rmsg, rgroup, ridx, tgsent, saved,
                   contactVars, inboundVars>>

\* releaseLock(g), by any caller; arg: the holder whose key DEL removed,
\* 0 when it removed none; the call resolves either way
StoreRelease(g) ==
    /\ lock' = releaseLock(lock, g)
    /\ call' = [call EXCEPT ![g] = [op |-> "releaseLock", arg |-> lock[g],
                                    ok |-> TRUE]]
    /\ UNCHANGED <<pc, grp, locals, mapping, queue, convs, faults, expiries,
                   ghosts, rpc, rmsg, rgroup, ridx, tgsent, saved,
                   contactVars, inboundVars>>

NextLock ==
    \/ \E g \in Groups, h \in Handlers : StoreAcquire(g, h)
    \/ \E g \in Groups : StoreRelease(g)

SpecLock == InitStore /\ [][NextLock]_vars

\* ================================================================ claims
Finished(h)  == pc[h] \in {"done", "escaped"}
HandlersOf(g) == {h \in Handlers : grp[h] = g}
MessagesOf(c) == {convs[c].msgs[i] : i \in 1..Len(convs[c].msgs)}
Queued(g)     == {queue[g][i].m : i \in 1..Len(queue[g])}

\* h stands between its successful acquireLock and the end of its releaseLock
LockedPcs == {"recheck", "create", "save", "drainRead", "drainSend",
              "drainRequeue", "drainClear", "release"}
InLockedSection(h) == pc[h] \in LockedPcs

\* h has left the try/finally of handleNewGroup
LeftFinally(h) == pc[h] \in {"done", "provCatch", "routerCatch", "escaped"}

\* message m is in the conversation the binding of its group names
ReachedBound(m) ==
    /\ getIntercomConversation(mapping, grp[m]) # Nil
    /\ m \in MessagesOf(getIntercomConversation(mapping, grp[m]))

\* message m was forwarded to some conversation
Forwarded(cs, m) == \E c \in 1..Len(cs) : \E i \in 1..Len(cs[c].msgs) : cs[c].msgs[i] = m

CreateCalls(g)     == {h \in HandlersOf(g) : created[h]}
ConversationsOf(g) == {c \in 1..Len(convs) : convs[c].grp = g}

\* C1: with no call failing, createConversation is called at most once per
\* group, at most one remote conversation exists per group, and once every
\* handler of a group has finished it was called exactly once.
C1_ExactlyOneConversation ==
    faults = 0 =>
        \A g \in Groups :
            /\ Cardinality(CreateCalls(g)) <= 1
            /\ Cardinality(ConversationsOf(g)) <= 1
            /\ (HandlersOf(g) # {} /\ \A h \in HandlersOf(g) : Finished(h))
                   => Cardinality(CreateCalls(g)) = 1

\* C2: with no call failing and no lock expiring, once every handler has
\* finished every message of a group is in the conversation bound to the group
\* (as its seed text or by a sendMessage).
C2_EveryMessageReachesConversation ==
    (faults = 0 /\ expiries = 0 /\ \A h \in Handlers : Finished(h)) =>
        \A h \in Handlers : grp[h] \in Groups => ReachedBound(h)

\* C3: a drain pass forwards the queued messages in the order they were
\* enqueued: the list it iterates is ordered by enqueue stamp.
C3_DrainForwardsInEnqueueOrder ==
    \A h \in Handlers :
        pc[h] \in {"drainSend", "drainRequeue", "drainClear"} =>
            \A i, j \in 1..Len(snap[h]) : i < j => snap[h][i].t < snap[h][j].t

\* C4: when a drain pass completes (its clear step is taken), every message
\* whose forward failed in the pass is still in the group's pending queue.
C4_FailedMessageKeptAfterDrain ==
    [][\A h \in Handlers :
          (pc[h] = "drainClear" /\ pc'[h] = "release") =>
              \A m \in dfail[h] :
                  \E i \in 1..Len(queue'[grp[h]]) : queue'[grp[h]][i].m = m]_vars

\* C5: an entry leaves a pending queue only if its message has been forwarded
\* to a conversation.
C5_RemovedOnlyAfterForward ==
    [][\A g \in Keys : \A i \in 1..Len(queue[g]) :
          (\A j \in 1..Len(queue'[g]) : queue'[g][j] # queue[g][i])
              => Forwarded(convs', queue[g][i].m)]_vars

\* C6: at most one handler per group is inside the locked section.
C6_OneProvisionerPerGroup ==
    \A g \in Groups :
        Cardinality({h \in HandlersOf(g) : InLockedSection(h)}) <= 1

C8_NoLockNoQueueWithoutGroup ==
    \A h \in Handlers :
        grp[h] = NoGroup => (acq[h] = "none" /\ qcalls[h] = 0)

C10_NoExceptionEscapes ==
    \A h \in Handlers :
        /\ pc[h] # "escaped"
        /\ ~(pc[h] = "routerCatch" /\ acq[h] # "none")

\* C11: even with no call failing and no lock expiring, a source message
\* whose handler has returned was forwarded to a conversation, or was put in
\* the pending queue of its group, or its drop was logged (the Router logs
\* when handleNewGroup returns no conversation).
C11_EveryMessageResolved ==
    \A h \in Handlers :
        (faults = 0 /\ expiries = 0 /\ pc[h] = "done" /\ grp[h] \in Groups) =>
            \/ Forwarded(convs, h)
            \/ enqOk[h]
            \/ conv[h] = Nil

\* h took the Router's bound branch, its sendMessage threw and the catch
\* re-queued the message
RequeuedWhenBound(h) == acq[h] = "none" /\ conv[h] # Nil /\ enqOk[h]

\* C12: a message that was re-queued because forwarding to an already-bound
\* conversation failed does not remain in the pending queue: when that send is
\* the only call that failed and every handler has finished (no step is left
\* to take, so nothing will re-attempt it), the message is not in the queue.
C12_RequeuedMessageRetried ==
    (faults = 1 /\ expiries = 0 /\ \A h \in Handlers : Finished(h)) =>
        \A h \in Handlers : RequeuedWhenBound(h) => h \notin Queued(grp[h])

\* C13: once a binding of group g has been persisted, no step changes its
\* conversationId and no step deletes it.
C13_BindingNeverChanges ==
    [][\A g \in Groups :
          hasGroupMapping(mapping, g) =>
              /\ hasGroupMapping(mapping', g)
              /\ getIntercomConversation(mapping', g)
                     = getIntercomConversation(mapping, g)]_vars

\* C14: saveGroupMapping is an overwriting upsert: after any sequence of
\* saves for g, getGroupMapping(g) and getIntercomConversation(g) return the
\* conversation of the latest save (and the group itself), and saving a
\* binding a second time leaves the state of the first save.
C14_SaveIsOverwritingUpsert ==
    /\ \A g \in Groups :
          saved[g] # <<>> =>
              /\ getGroupMapping(mapping, g).intercomConversationId
                     = saved[g][Len(saved[g])]
              /\ getGroupMapping(mapping, g).telegramGroupId = g
              /\ getIntercomConversation(mapping, g) = saved[g][Len(saved[g])]
    /\ \A g \in Groups, c \in ConvIds, last \in MessageIds \cup {NoId} :
          /\ saveGroupMapping(saveGroupMapping(mapping, g, c, last), g, c, last)
                 = saveGroupMapping(mapping, g, c, last)
          /\ getIntercomConversation(saveGroupMapping(mapping, g, c, last), g) = c

\* one group saved twice with different conversations, the other twice with
\* the same one
C14_Witness ==
    \E g, k \in Groups :
        /\ Len(saved[g]) = 2 /\ saved[g][1] # saved[g][2]
        /\ getIntercomConversation(mapping, g) = saved[g][2]
        /\ Len(saved[k]) = 2 /\ saved[k][1] = saved[k][2]
        /\ getIntercomConversation(mapping, k) = saved[k][2]

\* C15: the reverse lookup inverts the stored bindings: for every group g
\* whose binding names conversation c, getTelegramGroup(c) returns g in every
\* key order, and for a conversation no stored binding names (one never
\* created, or created and never saved) it returns null.
C15_ReverseLookupInvertsBinding ==
    /\ \A g \in Groups :
          getIntercomConversation(mapping, g) # Nil =>
              getTelegramGroup(mapping, getIntercomConversation(mapping, g)) = {g}
    /\ \A c \in 1..(Len(convs) + 1) :
          (\A g \in Groups : getIntercomConversation(mapping, g) # c) =>
              getTelegramGroup(mapping, c) = {Absent}

\* both groups are bound and a third conversation exists that no binding names
C15_Witness ==
    /\ \A g \in Groups : getIntercomConversation(mapping, g) # Nil
    /\ \E c \in 1..Len(convs) :
          /\ \A g \in Groups : getIntercomConversation(mapping, g) # c
          /\ getTelegramGroup(mapping, c) = {Absent}
    /\ \A g \in Groups :
          getTelegramGroup(mapping, getIntercomConversation(mapping, g)) = {g}

\* the group whose binding names the conversation of the emitted message
BoundGroups(c) == {g \in Groups : getIntercomConversation(mapping, g) = c}

\* C16: for a message the adapter emitted for a reply in a conversation bound
\* to group g, with no call failing, the handler resolves g and, when it has
\* returned, it has sent the text to g.
C16_ReplyReachesBoundGroup ==
    \A g \in BoundGroups(rmsg.conversationId) :
        (faults = 0 /\ rpc \in {"sendText", "sendFile", "done"}) =>
            /\ rgroup = g
            /\ rpc = "done" =>
                   \E i \in 1..Len(tgsent) :
                       tgsent[i].group = g /\ tgsent[i].kind = "text"

\* C17: createConversation is called only by a handler that holds the lock
\* of its group at that moment and whose re-check after acquiring found no
\* binding; a handler whose re-check finds a binding returns it, and only a
\* handler that called createConversation calls saveGroupMapping.
C17_CreateOnlyUnderLockAfterRecheck ==
    [][\A h \in Handlers :
          /\ (created'[h] /\ ~created[h]) =>
                 /\ pc[h] = "create" /\ acq[h] = "acquired"
                 /\ lock[grp[h]] = h
          /\ (pc[h] = "recheck" /\ pc'[h] = "create") =>
                 getIntercomConversation(mapping, grp[h]) = Nil
          /\ (pc[h] = "recheck" /\ pc'[h] # pc[h] /\ ~exc'[h]
                 /\ getIntercomConversation(mapping, grp[h]) # Nil) =>
                 /\ pc'[h] = "release"
                 /\ conv'[h] = getIntercomConversation(mapping, grp[h])
          /\ (pc'[h] # pc[h] /\ pc[h] # "create" /\ ~created[h]) =>
                 (mapping' = mapping /\ ~created'[h])]_vars

\* C18: a handler whose acquireLock returned false never calls
\* createConversation nor releaseLock, puts its message in the pending queue
\* once (no step of it enqueues after its message was enqueued), and returns
\* the binding it reads after the wait.
C18_ContendedEnqueuesOnce ==
    [][\A h \in Handlers :
          acq[h] = "contended" =>
              /\ ~created'[h] /\ rel'[h] = "none"
              /\ (enqOk[h] /\ pc'[h] # pc[h]) => queue' = queue
              /\ (pc[h] = "reread" /\ pc'[h] = "done") =>
                     /\ enqOk[h] /\ qcalls[h] = 1
                     /\ conv'[h] = getIntercomConversation(mapping, grp[h])]_vars

DrainPcs == {"drainRead", "drainSend", "drainRequeue", "drainClear"}

\* C19 as stated: a call that fails between acquireLock and releaseLock (the
\* drain included) raises its exception to the catch of handleNewGroup, and
\* the catch, when it completes, has put the triggering message in the
\* pending queue and returns null.
C19_AnyFailureRequeues ==
    [][\A h \in Handlers :
          pc'[h] # pc[h] =>
              /\ (pc[h] \in {"recheck", "create", "save"} \cup DrainPcs
                     /\ faults' # faults) => exc'[h]
              /\ (pc[h] = "provCatch" /\ acq[h] = "acquired"
                     /\ pc'[h] = "done") =>
                     /\ conv'[h] = Nil
                     /\ \E i \in 1..Len(queue'[grp[h]]) :
                            queue'[grp[h]][i].m = h]_vars

\* C19 amended: a failure of the re-check, of createConversation (contact
\* resolution included) or of saveGroupMapping goes through releaseLock to
\* the catch, which calls queueMessage for the triggering message and, when
\* that call succeeds, returns null (when it throws, the exception goes to
\* the Router); a failure inside the drain is absorbed by
\* processQueuedMessages: the triggering message is not re-queued and the
\* new conversation id is returned.
C19_FailureBeforeDrainRequeues ==
    [][\A h \in Handlers :
          pc'[h] # pc[h] =>
              /\ (pc[h] \in {"recheck", "create", "save"} /\ faults' # faults) =>
                     (exc'[h] /\ pc'[h] = "release")
              /\ pc[h] \in DrainPcs =>
                     (~exc'[h] /\ qcalls'[h] = qcalls[h] /\ conv'[h] = conv[h])
              /\ (pc[h] = "release" /\ exc[h]) => pc'[h] = "provCatch"
              /\ (pc[h] = "release" /\ ~exc[h] /\ rel'[h] = "released") =>
                     (pc'[h] = "done" /\ conv'[h] = conv[h] /\ conv[h] # Nil)
              /\ pc[h] = "provCatch" =>
                     /\ qcalls'[h] = qcalls[h] + 1
                     /\ pc'[h] \in {"done", "routerCatch"}
                     /\ pc'[h] = "done" =>
                            /\ enqOk'[h] /\ conv'[h] = Nil
                            /\ \E i \in 1..Len(queue'[grp[h]]) :
                                   queue'[grp[h]][i].m = h]_vars

\* saveGroupMapping threw after the conversation was created: the lock was
\* released, the triggering message is in the queue, null was returned
C19_Witness ==
    \E h \in Handlers :
        /\ pc[h] = "done" /\ acq[h] = "acquired" /\ created[h]
        /\ rel[h] = "released" /\ conv[h] = Nil
        /\ enqOk[h] /\ h \in Queued(grp[h])
        /\ ~hasGroupMapping(mapping, grp[h])

\* C20: the steps of a provisioning come in the order acquireLock, re-check,
\* createConversation, saveGroupMapping, drain and clear, releaseLock: a
\* handler at createConversation has acquired and not yet created, one at
\* saveGroupMapping has created, one in the drain has created, the binding of
\* its group is persisted, it has not released and it holds the lock; one
\* that returned its new conversation has executed releaseLock.
C20_ProvisioningStepOrder ==
    \A h \in Handlers :
        /\ pc[h] \in {"recheck", "create"} =>
               (acq[h] = "acquired" /\ ~created[h] /\ rel[h] = "none")
        /\ pc[h] = "save" =>
               (acq[h] = "acquired" /\ created[h] /\ rel[h] = "none")
        /\ pc[h] \in DrainPcs =>
               /\ acq[h] = "acquired" /\ created[h] /\ rel[h] = "none"
               /\ hasGroupMapping(mapping, grp[h])
               /\ lock[grp[h]] = h
        /\ (pc[h] = "done" /\ created[h] /\ conv[h] # Nil) => rel[h] = "released"

\* C21: in a drain pass a forward that fails is followed by the re-enqueue of
\* that message and, when the re-enqueue has returned, by the next element:
\* no failing forward ends the pass; the pass enqueues only messages whose
\* forward failed; clearMessageQueue is reached only when the loop has gone
\* over the whole snapshot, every message of which was then forwarded to the
\* new conversation or failed.
C21_ForwardFailureDoesNotAbortDrain ==
    [][\A h \in Handlers :
          /\ pc[h] = "drainClear" =>
                 /\ idx[h] > Len(snap[h])
                 /\ \A i \in 1..Len(snap[h]) :
                        snap[h][i].m \in MessagesOf(conv[h]) \cup dfail[h]
          /\ (pc[h] = "drainSend" /\ pc'[h] # pc[h] /\ faults' # faults) =>
                 /\ pc'[h] = "drainRequeue"
                 /\ snap[h][idx[h]].m \in dfail'[h]
                 /\ queue' = queue
          /\ (pc[h] = "drainSend" /\ pc'[h] # pc[h] /\ faults' = faults) =>
                 /\ pc'[h] = AfterElement(h, idx[h])
                 /\ snap[h][idx[h]].m \in MessagesOf(conv[h])'
                 /\ queue' = queue
          /\ (pc[h] = "drainRequeue" /\ pc'[h] # pc[h] /\ faults' = faults) =>
                 /\ pc'[h] = AfterElement(h, idx[h])
                 /\ snap[h][idx[h]].m \in dfail[h]
                 /\ queue' = queueMessage(queue, grp[h], snap[h][idx[h]].m)
          /\ (pc[h] \in DrainPcs /\ pc'[h] = "release"
                 /\ pc[h] # "drainClear") =>
                 (pc[h] \in {"drainRead", "drainRequeue"} /\ faults' # faults)]_vars

\* a pass over two messages at its clear: the forward of the first failed,
\* the second was forwarded after it
C21_Witness ==
    \E h \in Handlers :
        /\ pc[h] = "drainClear" /\ Len(snap[h]) >= 2
        /\ snap[h][1].m \in dfail[h]
        /\ snap[h][2].m \in MessagesOf(conv[h]) \ dfail[h]
        /\ snap[h][1].m \in Queued(grp[h])

\* h read a binding in the Router and took the bound branch
TookBoundBranch(h) == acq[h] = "none" /\ conv[h] # Nil

\* C22: a handler that reads a binding sends its message to the conversation
\* of that binding and calls neither acquireLock nor createConversation; when
\* the send fails the handler ends normally ("done", never a rejected
\* promise) with its message in the pending queue of the group, and it never
\* changes a binding.
C22_BoundBranchForwardsOrQueues ==
    [][\A h \in Handlers :
          pc'[h] # pc[h] =>
              /\ (pc[h] = "start" /\ faults' = faults
                     /\ getIntercomConversation(mapping, grp[h]) # Nil) =>
                     /\ pc'[h] = "send"
                     /\ conv'[h] = getIntercomConversation(mapping, grp[h])
              /\ (pc[h] = "send" /\ faults' = faults) =>
                     /\ convs' = Reply(convs, conv[h], h)
                     /\ pc'[h] = "done" /\ queue' = queue
              /\ (pc[h] = "send" /\ faults' # faults) =>
                     (pc'[h] = "routerRequeue" /\ convs' = convs)
              /\ (TookBoundBranch(h) /\ pc[h] \in {"routerRequeue", "routerCatch"}) =>
                     /\ pc'[h] \in {"done", "routerCatch"}
                     /\ pc'[h] = "done" =>
                            /\ enqOk'[h]
                            /\ \E i \in 1..Len(queue'[grp[h]]) :
                                   queue'[grp[h]][i].m = h
              /\ TookBoundBranch(h) =>
                     /\ acq'[h] = "none" /\ ~created'[h]
                     /\ mapping' = mapping /\ lock' = lock]_vars

\* C23: when the Router has forwarded source message h to the bound
\* conversation of its group, the binding of the group has lastMessageId = h.
C23_LastMessageIdFollowsForward ==
    [][\A h \in Handlers :
          (pc[h] = "send" /\ pc'[h] = "done") =>
              getGroupMapping(mapping', grp[h]).lastMessageId = h]_vars

\* the sends of a message with n attachments to group g: the text, then the
\* attachments from the first to the last
ExpectedSends(g, n) ==
    [i \in 1..(n + 1) |->
        IF i = 1 THEN [group |-> g, kind |-> "text", att |-> 0]
        ELSE [group |-> g, kind |-> "file", att |-> i - 1]]

\* C24: what the handler has sent is at every moment a prefix of: the text
\* to the resolved group, then the attachments a1..ak in their order, one send
\* each; the loop is at attachment i only after the text and a1..a(i-1) were
\* sent, and with no failing call the handler ends with all of them sent.
C24_TextThenAttachmentsInOrder ==
    /\ Len(tgsent) <= rmsg.attachments + 1
    /\ tgsent = SubSeq(ExpectedSends(rgroup, rmsg.attachments), 1, Len(tgsent))
    /\ rpc = "sendText" => tgsent = <<>>
    /\ rpc = "sendFile" => Len(tgsent) = ridx
    /\ (rpc = "done" /\ faults = 0 /\ rgroup \in Groups) =>
           tgsent = ExpectedSends(rgroup, rmsg.attachments)

\* a message with at least two attachments went out completely
C24_Witness ==
    /\ rpc = "done" /\ rgroup \in Groups
    /\ rmsg.attachments >= 2
    /\ tgsent = ExpectedSends(rgroup, rmsg.attachments)

\* C25: a sendFile that fails for an attachment which is not the last one is
\* followed by the send of the next attachment.
C25_AttachmentsSentIndependently ==
    [][(rpc = "sendFile" /\ faults' # faults /\ ridx < rmsg.attachments) =>
          (rpc' = "sendFile" /\ ridx' = ridx + 1)]_vars

\* C26: a conversation-platform message whose reverse lookup finds no group
\* is dropped: the lookup step ends the handler, which has sent and sends
\* nothing to the source platform, and the step leaves every binding, lock
\* and pending queue as it was.
C26_UnresolvedReplyDropped ==
    [][/\ (rpc = "lookup" /\ faults' = faults
           /\ getTelegramGroup(mapping, rmsg.senderId) = {Absent}) =>
              /\ rpc' = "done" /\ rgroup' = Absent
              /\ tgsent' = <<>>
              /\ mapping' = mapping /\ lock' = lock /\ queue' = queue
       /\ (rpc \in {"sendText", "sendFile"} \/ tgsent' # tgsent) =>
              (rgroup \in Groups /\ rgroup \in getTelegramGroup(mapping, rmsg.senderId))]_vars

\* a reply in a conversation that no binding names was looked up and dropped
C26_Witness ==
    /\ rpc = "done" /\ rmsg.via = "polling" /\ faults = 0
    /\ BoundGroups(rmsg.conversationId) = {}
    /\ rgroup = Absent /\ tgsent = <<>>
    /\ \A g \in Groups : queue[g] = <<>> /\ lock[g] = 0

\* C27: a lock whose holder crashed before releaseLock becomes free.
C27_CrashedLockBecomesFree ==
    \A h \in Handlers :
        (pc[h] = "crashed" /\ lock[grp[h]] = h) ~> (lock[grp[h]] = 0)

\* the holder crashed before it saved a binding, the key expired, and the
\* handler of a later message acquired the lock and provisioned the group
C27_Witness ==
    \E h, k \in Handlers :
        /\ pc[h] = "crashed" /\ grp[k] = grp[h] /\ k # h
        /\ acq[k] = "acquired" /\ created[k] /\ pc[k] = "done"
        /\ getIntercomConversation(mapping, grp[k]) = conv[k]
        /\ conv[k] # Nil /\ lock[grp[k]] = 0

\* C28: acquireLock(g) returns true and sets the lock key of g iff the key
\* was absent, and returns false and leaves every lock as it was when the
\* key is present; it resolves in the one call either way.  releaseLock(g)
\* on a lock that is not held resolves and changes no lock.
C28_AcquireIsSetIfAbsent ==
    [][\A g \in Groups :
          call'[g] # call[g] =>
              /\ call'[g].op = "acquireLock" =>
                     /\ call'[g].ok <=> lock[g] = 0
                     /\ call'[g].ok => lock'[g] = call'[g].arg
                     /\ ~call'[g].ok => lock' = lock
              /\ (call'[g].op = "releaseLock" /\ lock[g] = 0) =>
                     /\ call'[g].ok
                     /\ lock' = lock]_vars

\* one lock was taken by a caller and a second caller's acquireLock on it
\* returned false; releaseLock was called on the other lock, which nobody
\* held, and it is still free
C28_Witness ==
    \E g, k \in Groups :
        /\ g # k
        /\ call[g].op = "acquireLock" /\ ~call[g].ok
        /\ lock[g] \in Handlers \ {call[g].arg}
        /\ call[k].op = "releaseLock" /\ call[k].arg = 0
        /\ lock[k] = 0

\* C29: updateLastMessageId(g, id) on a group that has a binding sets its
\* lastMessageId to id and leaves its telegramGroupId and
\* intercomConversationId, the binding of every other group, every lock and
\* every queue as they were.
C29_UpdateLastMessageIdFrame ==
    [][\A g \in Groups :
          (/\ call'[g] # call[g]
           /\ call'[g].op = "updateLastMessageId"
           /\ hasGroupMapping(mapping, g)) =>
              /\ mapping'[g].lastMessageId = call'[g].arg
              /\ mapping'[g].telegramGroupId = mapping[g].telegramGroupId
              /\ mapping'[g].intercomConversationId
                     = mapping[g].intercomConversationId
              /\ \A k \in Keys \ {g} : mapping'[k] = mapping[k]
              /\ lock' = lock
              /\ queue' = queue]_vars

\* a binding saved once, with no lastMessageId, then updated: it has the
\* group and the conversation it was saved with and the updated id
C29_Witness ==
    \E g \in Groups :
        /\ call[g].op = "updateLastMessageId" /\ call[g].ok
        /\ Len(saved[g]) = 1
        /\ mapping[g].telegramGroupId = g
        /\ mapping[g].intercomConversationId = saved[g][1]
        /\ mapping[g].lastMessageId = call[g].arg
        /\ call[g].arg \in MessageIds

\* the conversations createConversation made for the message of handler h:
\* a conversation starts with the message it was created for
CreatedFor(h) ==
    {c \in 1..Len(convs) : convs[c].msgs # <<>> /\ convs[c].msgs[1] = h}

\* C30: when handleNewGroup saves the binding of its group g, the stored
\* binding has telegramGroupId = g, intercomConversationId = the id its own
\* createConversation call returned and lastMessageId = the id of its
\* message; and when it then returns after the drain and a releaseLock that
\* succeeded, it returns that same conversation id.
C30_PersistedBindingOfProvisioning ==
    [][\A h \in Handlers :
          /\ (pc[h] = "save" /\ pc'[h] = "drainRead") =>
                 /\ CreatedFor(h) = {conv[h]}
                 /\ getGroupMapping(mapping', grp[h])
                        = [telegramGroupId |-> grp[h],
                           intercomConversationId |-> conv[h],
                           lastMessageId |-> h]
          /\ (pc[h] = "release" /\ pc'[h] = "done" /\ created[h]) =>
                 CreatedFor(h) = {conv'[h]}]_vars

\* a handler created a conversation, saved the binding, drained, released and
\* returned the conversation id, and the stored binding is the one it saved
C30_Witness ==
    \E h \in Handlers :
        /\ pc[h] = "done" /\ created[h] /\ rel[h] = "released"
        /\ CreatedFor(h) = {conv[h]}
        /\ getGroupMapping(mapping, grp[h])
               = [telegramGroupId |-> grp[h],
                  intercomConversationId |-> conv[h],
                  lastMessageId |-> h]

\* C31: when getContactMapping(userId) returns a cached contact id,
\* getOrCreateContact returns that id, having made no remote contact create,
\* search or update call and no cache write: the step that reads the cache
\* ends the invocation and changes neither the cache nor the workspace.
C31_CachedContactUsedFirst ==
    /\ [](goc.cached # Nil =>
              /\ goc.pc = "returned"
              /\ goc.ret = goc.cached
              /\ goc.did = {})
    /\ [][(goc.pc = "getCache" /\ goc'.pc \notin {"getCache", "threw"}
             /\ getContactMapping(contactMapping, goc.user) # Nil) =>
              /\ goc'.cached = getContactMapping(contactMapping, goc.user)
              /\ goc'.pc = "returned"
              /\ contactMapping' = contactMapping
              /\ remoteContacts' = remoteContacts]_vars

\* the contact of a user was created and cached by one invocation, and a
\* later invocation for the same user returned the cached id
C31_Witness ==
    /\ goc.pc = "returned" /\ goc.cached # Nil
    /\ goc.ret = ContactOf(remoteContacts, goc.user)
    /\ contactMapping[goc.user] = [id |-> goc.ret, why |-> "set"]

\* C32: on a cache miss (the key was never set, expired or was invalidated)
\* an invocation that returns has written userId -> the returned contact id
\* to the cache before it returns, after a remote create or, on a 409, after
\* search and update; an invocation that throws has written nothing to the
\* cache.
C32_MissWritesCacheOnSuccessOnly ==
    /\ []((goc.pc = "returned" /\ goc.cached = Nil) =>
              /\ goc.miss \in {"never", "expired", "invalidated"}
              /\ goc.ret = ContactOf(remoteContacts, goc.user)
              /\ \/ goc.did = {"create", "save"}
                 \/ goc.did = {"create", "search", "update", "save"})
    /\ [](goc.pc = "threw" => "save" \notin goc.did)
    /\ [][/\ ((goc'.pc = "returned" /\ goc.pc \notin {"returned", "getCache"}) =>
                  contactMapping'[goc.user] = [id |-> goc'.ret, why |-> "set"])
           /\ ((goc'.pc = "threw" /\ goc.pc # "threw") =>
                  contactMapping' = contactMapping)]_vars

\* the key of a user had expired; create answered 409, the contact was found
\* and updated, and its id was written to the cache and returned
C32_Witness ==
    /\ goc.pc = "returned" /\ goc.miss = "expired"
    /\ goc.did = {"create", "search", "update", "save"}
    /\ contactMapping[goc.user] = [id |-> goc.ret, why |-> "set"]

\* a step of the source-message handler h: Router or Provisioner
HandlerStep(h) ==
    \/ RouterLookup(h) \/ RouterSend(h) \/ RouterRequeue(h) \/ RouterCatch(h)
    \/ AcquireLock(h) \/ ContendQueue(h) \/ ReRead(h) \/ Recheck(h)
    \/ CreateConversation(h) \/ SaveGroupMapping(h)
    \/ DrainRead(h) \/ DrainSend(h) \/ DrainRequeue(h) \/ DrainClear(h)
    \/ ReleaseLock(h) \/ ProvCatch(h)

\* C33: every step of the Router and Provisioner for a message of one group
\* leaves the binding, the lock and the pending queue of every other group
\* unchanged; and whatever the locks held and the failures that occurred
\* for other groups, a handler whose own group's lock is free can acquire
\* it, and every handler that has not finished can take its next step with
\* no call failing.
C33_GroupsAreIndependent ==
    /\ [][\A h \in Handlers :
             HandlerStep(h) =>
                 \A k \in Keys \ {grp[h]} :
                     /\ mapping'[k] = mapping[k]
                     /\ lock'[k] = lock[k]
                     /\ queue'[k] = queue[k]]_vars
    /\ [](\A h \in Handlers :
             (pc[h] = "acquire" /\ lock[grp[h]] = 0) =>
                 ENABLED (AcquireLock(h) /\ acq'[h] = "acquired"))
    /\ [](\A h \in Handlers :
             ~Finished(h) =>
                 ENABLED (HandlerStep(h) /\ NoFail))

\* the lock of g1 is held by a handler that is about to create g1's
\* conversation and a call has failed; meanwhile a handler of g2 acquired
\* g2's lock, provisioned g2 and released, and a later message of g2 was
\* forwarded to g2's conversation
C33_Witness ==
    \E h1, h2, h3 \in Handlers :
        /\ grp[h1] = "g1" /\ grp[h2] = "g2" /\ grp[h3] = "g2" /\ h2 # h3
        /\ pc[h1] = "create" /\ lock["g1"] = h1
        /\ faults > 0
        /\ pc[h2] = "done" /\ created[h2] /\ rel[h2] = "released"
        /\ conv[h2] # Nil
        /\ getIntercomConversation(mapping, "g2") = conv[h2]
        /\ pc[h3] = "done" /\ acq[h3] = "none"
        /\ h3 \in MessagesOf(conv[h2])

\* C34: the webhook handler emits a Message only for a body that is a
\* notification_event for a conversation item whose latest part (the part
\* the handler reads, conversation_parts[0]) is a comment authored by an
\* admin, whose source type is neither automated nor operator and whose
\* custom attributes carry a telegram_group_id; the Message has that
\* telegram_group_id as groupId; for every other body nothing is emitted.
C34_WebhookEmitsAdminRepliesOnly ==
    /\ [](emitted # NoEmit =>
              /\ ipc = "handled"
              /\ req.type = "notification_event"
              /\ req.itemType = "conversation"
              /\ req.parts # <<>>
              /\ req.parts[1] = [partType |-> "comment", authorType |-> "admin"]
              /\ req.source \notin {"automated", "operator"}
              /\ req.tgid \notin {Absent, ""}
              /\ emitted.groupId = req.tgid)
    /\ [][emitted' # emitted => (ipc = "received" \/ emitted' = NoEmit)]_vars

\* an admin comment on a conversation that carries telegram_group_id g1 was
\* posted in a body of MaxParts parts, and the Message for g1 was emitted
C34_Witness ==
    /\ ipc = "handled" /\ res = 200
    /\ req.source = "conversation" /\ Len(req.parts) = MaxParts
    /\ emitted = [groupId |-> "g1", groupName |-> "G1"]

C36_FailedAttemptNotRepeated ==
    expiries = 0 =>
        \A g \in Groups : Cardinality(ConversationsOf(g)) <= 1

\* C37: a releaseLock executed in handleNewGroup's finally block that
\* deletes a lock key deletes the key this same handler set and still holds,
\* never a key another handler set after the first one's key expired.
C37_ReleaseDeletesOwnLockOnly ==
    [][\A h \in Handlers :
          (ReleaseLock(h) /\ lock'[grp[h]] # lock[grp[h]]) =>
              lock[grp[h]] = h]_vars

\* three messages of one unbound group, no lock key reaching its TTL; every
\* handler whose awaited call has settled is resumed (the event loop runs
\* every ready continuation)
NextDrain == \E h \in Handlers : HandlerStep(h)

SpecDrain ==
    /\ InitStore
    /\ [][NextDrain]_vars
    /\ \A h \in Handlers : WF_vars(HandlerStep(h))

\* C38: every drain pass terminates.  A pass iterates over the snapshot it
\* read at its start: the snapshot does not change during the pass, the
\* position in it never goes back, every attempt of an element (forwarded,
\* or failed and re-enqueued) moves the position to the next element, and
\* the loop ends after the last element of the snapshot whatever was
\* enqueued meanwhile; so a pass that started leaves the drain, also when
\* every forward fails.
C38_DrainPassTerminates ==
    /\ \A h \in Handlers : (pc[h] = "drainRead") ~> (pc[h] \notin DrainPcs)
    /\ [](\A h \in Handlers :
             pc[h] \in {"drainSend", "drainRequeue"} =>
                 idx[h] \in 1..Len(snap[h]))
    /\ [][\A h \in Handlers :
             /\ (pc[h] \in {"drainSend", "drainRequeue", "drainClear"}
                 /\ pc'[h] \in DrainPcs) =>
                    /\ snap'[h] = snap[h]
                    /\ idx'[h] \in {idx[h], idx[h] + 1}
             /\ (DrainSend(h) /\ pc'[h] # "drainRequeue") =>
                    idx'[h] = idx[h] + 1
             /\ (DrainRequeue(h) /\ pc'[h] \in DrainPcs) =>
                    idx'[h] = idx[h] + 1
             /\ (pc[h] \in {"drainSend", "drainRequeue"} /\ pc'[h] \in DrainPcs
                 /\ idx[h] = Len(snap[h]) /\ idx'[h] # idx[h]) =>
                    pc'[h] = "drainClear"
             /\ DrainClear(h) => pc'[h] \notin DrainPcs]_vars

\* a pass over a snapshot of two messages stands after its last element:
\* both forwards failed and both messages were enqueued again, so the list
\* holds two entries the pass does not iterate over
C38_Witness ==
    \E h \in Handlers :
        /\ pc[h] = "drainClear"
        /\ Len(snap[h]) = 2 /\ idx[h] = 3
        /\ dfail[h] = {snap[h][1].m, snap[h][2].m}
        /\ Len(queue[grp[h]]) = 4

\* C39: a group for which saveGroupMapping was never executed has no
\* binding, whatever updateLastMessageId calls were made for it:
\* getGroupMapping returns null, getIntercomConversation returns null and
\* getTelegramGroup returns the group for no conversation id.
C39_BindingOnlyAfterSave ==
    \A g \in Groups :
        saved[g] = <<>> =>
            /\ getGroupMapping(mapping, g) = EmptyHash
            /\ getIntercomConversation(mapping, g) = Nil
            /\ \A c \in ConvIds : g \notin getTelegramGroup(mapping, c)
====
